---- MODULE Spec2Model ----
(***************************************************************************)
(* Model of cmd/mapstructure-to-hcl2: the generator that flattens a        *)
(* mapstructure-tagged Go struct into its "Flat" projection and lowers     *)
(* each flat field to an hcldec spec.                                      *)
(*                                                                         *)
(* Go strings are TLA+ strings.  A go/types type is a sequence of type     *)
(* constructor records, outermost first, ending in a leaf: for             *)
(* []*cfg.Rule it is <<Slice, Pointer, Named Rule>>.  A raw struct tag is  *)
(* the sequence of its key:"name,opt,..." entries; an entry whose key is   *)
(* empty stands for tag text without a key, which structtag.Parse rejects. *)
(***************************************************************************)
EXTENDS Integers, Sequences, FiniteSets, TLC

VARIABLES rootDecl, requested, typeNames, defs, structs, pc, outputFile

vars == <<rootDecl, requested, typeNames, defs, structs, pc, outputFile>>

(***************************************************************************)
(* Bounds of the model.                                                    *)
(***************************************************************************)
\* number of fields of the root struct drawn from NameFields
MaxFields == 2
\* nesting depth of outputHCL2SpecField calls after which the Go stack is
\* taken to be exhausted (only a cyclic named type gets there)
MaxLowerDepth == 8

(***************************************************************************)
(* Strings.                                                                *)
(***************************************************************************)
Char(s, i) == SubSeq(s, i, i)

UpperStr == "ABCDEFGHIJKLMNOPQRSTUVWXYZ"
LowerStr == "abcdefghijklmnopqrstuvwxyz"
DigitStr == "0123456789"

Chars(s) == {Char(s, i) : i \in 1..Len(s)}
UpperChars == Chars(UpperStr)
LowerChars == Chars(LowerStr)
DigitChars == Chars(DigitStr)

IsUpper(c) == c \in UpperChars
IsLower(c) == c \in LowerChars
IsDigit(c) == c \in DigitChars

LowerOf ==
    [c \in UpperChars |->
        Char(LowerStr, CHOOSE i \in 1..Len(UpperStr) : Char(UpperStr, i) = c)]

ToLowerChar(c) ==
    IF IsUpper(c) THEN LowerOf[c] ELSE c

RECURSIVE ToLower(_)
ToLower(s) ==
    IF s = "" THEN "" ELSE ToLowerChar(Char(s, 1)) \o ToLower(SubSeq(s, 2, Len(s)))

HasPrefix(s, prefix) ==
    Len(s) >= Len(prefix) /\ SubSeq(s, 1, Len(prefix)) = prefix

\* bytes.ReplaceAll / strings.Replace(-1): leftmost non-overlapping
\* occurrences of old (non-empty) are replaced by new
RECURSIVE ReplaceAll(_, _, _)
ReplaceAll(s, old, new) ==
    IF Len(s) < Len(old) THEN s
    ELSE IF HasPrefix(s, old)
         THEN new \o ReplaceAll(SubSeq(s, Len(old) + 1, Len(s)), old, new)
         ELSE Char(s, 1) \o ReplaceAll(SubSeq(s, 2, Len(s)), old, new)

\* last index of the run of lowercase letters that starts at j
RECURSIVE LowerRunEnd(_, _)
LowerRunEnd(str, j) ==
    IF j + 1 <= Len(str) /\ IsLower(Char(str, j + 1))
    THEN LowerRunEnd(str, j + 1)
    ELSE j

\* matchFirstCap.ReplaceAllString(str, "${1}_${2}") from position i on,
\* matchFirstCap = (.)([A-Z][a-z]+)
RECURSIVE ReplaceFirstCap(_, _)
ReplaceFirstCap(str, i) ==
    IF i > Len(str) THEN ""
    ELSE IF /\ i + 2 <= Len(str)
            /\ IsUpper(Char(str, i + 1))
            /\ IsLower(Char(str, i + 2))
         THEN LET e == LowerRunEnd(str, i + 2)
              IN  Char(str, i) \o "_" \o SubSeq(str, i + 1, e)
                    \o ReplaceFirstCap(str, e + 1)
         ELSE Char(str, i) \o ReplaceFirstCap(str, i + 1)

\* matchAllCap.ReplaceAllString(str, "${1}_${2}") from position i on,
\* matchAllCap = ([a-z0-9])([A-Z])
RECURSIVE ReplaceAllCap(_, _)
ReplaceAllCap(str, i) ==
    IF i > Len(str) THEN ""
    ELSE IF /\ i + 1 <= Len(str)
            /\ (IsLower(Char(str, i)) \/ IsDigit(Char(str, i)))
            /\ IsUpper(Char(str, i + 1))
         THEN Char(str, i) \o "_" \o Char(str, i + 1) \o ReplaceAllCap(str, i + 2)
         ELSE Char(str, i) \o ReplaceAllCap(str, i + 1)

\* the derivation without the matchFirstCap pass
ToSnakeCaseSkipsFirstCap(str) == ToLower(ReplaceAllCap(str, 1))

ToSnakeCase(str) == ToLower(ReplaceAllCap(ReplaceFirstCap(str, 1), 1))

(***************************************************************************)
(* go/types: a type is a non-empty sequence of constructor records.        *)
(*   k  the constructor, n  the basic kind / type name / map key kind,     *)
(*   p  the package path of a named type, u  the declaration a named type  *)
(*   or a struct literal refers to.                                        *)
(***************************************************************************)
TopPkgPath == "cfg"

Leaf(k, n) == <<[k |-> k, n |-> n, p |-> "", u |-> ""]>>

Basic(kind) == Leaf("Basic", kind)
Interface == Leaf("Interface", "")
Signature == Leaf("Signature", "")
StructLit(id) == <<[k |-> "Struct", n |-> "", p |-> "", u |-> id]>>
Named(pkg, name) ==
    <<[k |-> "Named", n |-> name, p |-> pkg, u |-> pkg \o "." \o name]>>

\* types.NewPointer, types.NewSlice
NewPointer(t) == Leaf("Pointer", "") \o t
NewSlice(t) == Leaf("Slice", "") \o t
MapOf(key, t) == Leaf("Map", key) \o t
ChanOf(t) == Leaf("Chan", "") \o t
ArrayOf(t) == Leaf("Array", "") \o t

Kind(t) == Head(t).k
Elem(t) == Tail(t)

(***************************************************************************)
(* Struct tags (github.com/fatih/structtag as the generator uses it).      *)
(***************************************************************************)
TagEntry(key, name, opts) == [key |-> key, name |-> name, opts |-> opts]
NoTag == <<>>

\* structtag.Parse: (nil, err) on tag text with an empty key, else the
\* entries in order
Parse(tag) ==
    IF \E i \in 1..Len(tag) : tag[i].key = ""
    THEN [nil |-> TRUE, tags |-> <<>>]
    ELSE [nil |-> FALSE, tags |-> tag]

\* (*Tags).Get: the first entry with the key; err = errTagNotExist when
\* there is none.  Called on a nil *Tags it dereferences nil (see
\* SquashPanics).
HasKey(st, key) == \E i \in 1..Len(st.tags) : st.tags[i].key = key
Get(st, key) ==
    st.tags[CHOOSE i \in 1..Len(st.tags) :
                /\ st.tags[i].key = key
                /\ \A j \in 1..(i - 1) : st.tags[j].key # key]

\* (*Tag).HasOption
HasOption(t, opt) == \E i \in 1..Len(t.opts) : t.opts[i] = opt

\* (*Tags).Set: an empty key is refused; every entry with the key is
\* replaced, or the entry is appended.  (*Tags).String() gives the entries
\* back as tag text.
Set(st, t) ==
    IF t.key = "" THEN st
    ELSE IF HasKey(st, t.key)
         THEN [st EXCEPT !.tags =
                  [i \in 1..Len(st.tags) |->
                      IF st.tags[i].key = t.key THEN t ELSE st.tags[i]]]
         ELSE [st EXCEPT !.tags = Append(st.tags, t)]

TagString(st) == st.tags

(***************************************************************************)
(* The type universe: the loaded package cfg and what it imports.          *)
(***************************************************************************)
Field(name, type, tag) == [name |-> name, type |-> type, tag |-> tag]

Squash == <<TagEntry("mapstructure", "", <<"squash">>)>>
MsName(name) == <<TagEntry("mapstructure", name, <<>>)>>

\* type Rule struct { Path string }
RuleFields == <<Field("Path", Basic("string"), NoTag)>>

\* type Base struct {
\*     Name     string `mapstructure:"base_name"`
\*     Tags     []string
\*     BaseName string
\*     debug    bool
\*     Hook     func()
\* }
BaseFields ==
    << Field("Name", Basic("string"), MsName("base_name")),
       Field("Tags", NewSlice(Basic("string")), NoTag),
       Field("BaseName", Basic("string"), NoTag),
       Field("debug", Basic("bool"), NoTag),
       Field("Hook", Signature, NoTag) >>

\* type Common struct {
\*     Tags  map[string]string
\*     Debug bool
\*     Base  `mapstructure:",squash"`
\* }
CommonFields ==
    << Field("Tags", MapOf("string", Basic("string")), NoTag),
       Field("Debug", Basic("bool"), NoTag),
       Field("Base", Named(TopPkgPath, "Base"), Squash) >>

\* struct { Debug bool; Cmd string; HttpPort uint16 }
InlineFields ==
    << Field("Debug", Basic("bool"), NoTag),
       Field("Cmd", Basic("string"), NoTag),
       Field("HttpPort", Basic("uint16"), NoTag) >>

\* the fields of a struct type; Config is the root the run is given
StructFields(id) ==
    CASE id = "cfg.Config" -> rootDecl
      [] id = "cfg.Rule" -> RuleFields
      [] id = "cfg.Base" -> BaseFields
      [] id = "cfg.Common" -> CommonFields
      [] id = "inline" -> InlineFields
      [] OTHER -> <<>>

StructNames == {"Config", "Rule", "Base", "Common"}

\* (*types.Named).Underlying and Underlying of every other type
\*   type Mode string; type RuleSet []Rule; type Iface interface{};
\*   type L []L; time.Duration
Underlying(t) ==
    IF Kind(t) # "Named" THEN t
    ELSE LET u == Head(t).u
         IN  CASE u = "cfg.Mode" -> Basic("string")
               [] u = "cfg.RuleSet" -> NewSlice(Named(TopPkgPath, "Rule"))
               [] u = "cfg.Iface" -> Interface
               [] u = "cfg.L" -> NewSlice(Named(TopPkgPath, "L"))
               [] u = "time.Duration" -> Basic("int64")
               [] OTHER -> StructLit(u)

\* types.Type.String(), package-path qualified
RECURSIVE TypeString(_)
TypeString(t) ==
    LET h == Head(t)
    IN  CASE h.k = "Basic" -> h.n
          [] h.k = "Named" -> h.p \o "." \o h.n
          [] h.k = "Pointer" -> "*" \o TypeString(Tail(t))
          [] h.k = "Slice" -> "[]" \o TypeString(Tail(t))
          [] h.k = "Array" -> "[2]" \o TypeString(Tail(t))
          [] h.k = "Chan" -> "chan " \o TypeString(Tail(t))
          [] h.k = "Map" -> "map[" \o h.n \o "]" \o TypeString(Tail(t))
          [] h.k = "Struct" -> "struct{" \o h.u \o "}"
          [] h.k = "Interface" -> "interface{}"
          [] OTHER -> "func()"

(***************************************************************************)
(* Flattening: getMapstructureSquashedStruct and its helpers.              *)
(***************************************************************************)
\* (*types.Var).Exported: the name starts with an upper-case letter
Exported(name) == name # "" /\ IsUpper(Char(name, 1))

\* uniqueFields: the first field of each name is kept
RECURSIVE uniqueFields(_)
uniqueFields(fields) ==
    IF fields = <<>> THEN <<>>
    ELSE LET init == uniqueFields(SubSeq(fields, 1, Len(fields) - 1))
             last == fields[Len(fields)]
         IN  IF \E i \in 1..Len(init) : init[i].name = last.name
             THEN init
             ELSE Append(init, last)

addFieldToStruct(s, field) == uniqueFields(Append(s, field))

squashStructs(a, b) == uniqueFields(a \o b)

\* flattenNamed: the named type renamed "Flat"+name, over the same struct
flattenNamed(f) == <<[Head(f) EXCEPT !.n = "Flat" \o Head(f).n]>>

\* makePointer, on the field's type
makePointer(t) == NewPointer(t)

IsNamedStruct(t) == Kind(t) = "Named" /\ Kind(Underlying(t)) = "Struct"

\* lines 436-443: the table of named types replaced by a placeholder
Override(t) ==
    CASE TypeString(t) = "time.Duration" -> NewPointer(Basic("string"))
      [] TypeString(t) = "github.com/hashicorp/packer/helper/config.Trilean"
            -> NewPointer(Basic("bool"))
      [] TypeString(t)
           = "github.com/hashicorp/packer/provisioner/powershell.ExecutionPolicy"
            -> NewPointer(Basic("string"))
      [] OTHER -> t

\* lines 429-471: the type a kept field gets in the flat struct
FlatFieldType(declared) ==
    LET t == IF Kind(declared) = "Pointer" THEN Elem(declared) ELSE declared
    IN  CASE Kind(t) = "Named" ->
               LET o == Override(t)
                   s == IF IsNamedStruct(t)
                        THEN makePointer(flattenNamed(t))
                        ELSE o
                   ut == Underlying(t)
               IN  IF /\ Kind(ut) = "Slice"
                      /\ IsNamedStruct(Elem(ut))
                   THEN NewSlice(flattenNamed(Elem(ut)))
                   ELSE s
          [] Kind(t) = "Slice" ->
               IF IsNamedStruct(Elem(t))
               THEN NewSlice(flattenNamed(Elem(t)))
               ELSE t
          [] Kind(t) = "Basic" -> makePointer(t)
          [] OTHER -> t

\* lines 413-415: the field has a mapstructure tag with the squash option
IsSquash(field) ==
    LET st == Parse(field.tag)
    IN  HasKey(st, "mapstructure") /\ HasOption(Get(st, "mapstructure"), "squash")

RECURSIVE getMapstructureSquashedStruct(_)
RECURSIVE SquashLoop(_, _, _)
\* the loop of getMapstructureSquashedStruct from field i on, res so far
SquashLoop(utStruct, i, res) ==
    IF i > Len(utStruct) THEN res
    ELSE LET field == utStruct[i]
         IN  IF ~Exported(field.name) \/ Kind(field.type) = "Signature"
             THEN SquashLoop(utStruct, i + 1, res)
             ELSE IF IsSquash(field)
             THEN LET uot == Underlying(field.type)
                  IN  IF Kind(uot) # "Struct"
                      THEN SquashLoop(utStruct, i + 1, res)
                      ELSE SquashLoop(utStruct, i + 1,
                             squashStructs(res,
                               getMapstructureSquashedStruct(
                                 StructFields(Head(uot).u))))
             ELSE SquashLoop(utStruct, i + 1,
                    addFieldToStruct(res,
                      Field(field.name, FlatFieldType(field.type), field.tag)))

getMapstructureSquashedStruct(utStruct) == SquashLoop(utStruct, 1, <<>>)

\* structtag.Parse fails on a visited field's tag and the Get of line 413
\* dereferences the nil *Tags: the run panics
RECURSIVE SquashPanics(_)
SquashPanics(utStruct) ==
    \E i \in 1..Len(utStruct) :
        LET field == utStruct[i]
        IN  /\ Exported(field.name)
            /\ Kind(field.type) # "Signature"
            /\ \/ Parse(field.tag).nil
               \/ /\ IsSquash(field)
                  /\ Kind(Underlying(field.type)) = "Struct"
                  /\ SquashPanics(StructFields(Head(Underlying(field.type)).u))

(***************************************************************************)
(* Accessors: addCtyTagToStruct and uniqueTags.                            *)
(***************************************************************************)
\* lines 365-371: the accessor of a field
CtyAccessor(field) ==
    LET st == Parse(field.tag)
    IN  IF /\ ~st.nil
           /\ HasKey(st, "mapstructure")
           /\ Get(st, "mapstructure").name # ""
        THEN Get(st, "mapstructure").name
        ELSE ToSnakeCase(field.name)

\* the cty tag name of a field of a flat struct
CtyName(field) == Get(Parse(field.tag), "cty").name

\* uniqueTags without the duplicate check
uniqueTagsKeepsAll(tagName, fields) == fields

\* uniqueTags: the first field of each tagName name is kept; a field
\* without the tag is kept
RECURSIVE uniqueTags(_, _)
uniqueTags(tagName, fields) ==
    IF fields = <<>> THEN <<>>
    ELSE LET init == uniqueTags(tagName, SubSeq(fields, 1, Len(fields) - 1))
             last == fields[Len(fields)]
             st == Parse(last.tag)
         IN  IF /\ HasKey(st, tagName)
                /\ \E i \in 1..Len(init) :
                      /\ HasKey(Parse(init[i].tag), tagName)
                      /\ Get(Parse(init[i].tag), tagName).name
                           = Get(st, tagName).name
             THEN init
             ELSE Append(init, last)

WithCtyTag(field) ==
    [field EXCEPT !.tag =
        TagString(Set(Parse(field.tag), TagEntry("cty", CtyAccessor(field), <<>>)))]

addCtyTagToStruct(s) ==
    uniqueTags("cty", [i \in 1..Len(s) |-> WithCtyTag(s[i])])

(***************************************************************************)
(* Lowering: outputHCL2SpecField and outputStructHCL2SpecBody.  A node is  *)
(* the hcldec spec literal the generator prints.                           *)
(***************************************************************************)
Node(kind, name, cty, ref, nested) ==
    [kind |-> kind, name |-> name, cty |-> cty, required |-> FALSE,
     ref |-> ref, nested |-> nested]

\* the attribute written with Required: true
AttrSpecRequired(name, cty) ==
    [Node("AttrSpec", name, cty, "", <<>>) EXCEPT !.required = TRUE]

\* &hcldec.AttrSpec{Name, Type, Required: false}
AttrSpec(name, cty) == Node("AttrSpec", name, cty, "", <<>>)
\* &hcldec.BlockAttrsSpec{TypeName, ElementType, Required: false}
BlockAttrsSpec(name, cty) == Node("BlockAttrsSpec", name, cty, "", <<>>)
\* &hcldec.BlockListSpec{TypeName, Nested}
BlockListSpec(name, nested) == Node("BlockListSpec", name, "", "", <<nested>>)
\* &hcldec.BlockSpec{TypeName, Nested: hcldec.ObjectSpec((*ref)(nil).HCL2Spec())}
BlockSpec(name, ref) == Node("BlockSpec", name, "", ref, <<>>)
\* &hcldec.BlockObjectSpec{TypeName, Nested: hcldec.ObjectSpec((*ref)(nil).HCL2Spec())}
BlockObjectSpec(name, ref) == Node("BlockObjectSpec", name, "", ref, <<>>)
\* (&ref{}).HCL2Spec()
SelfDefined(ref) == Node("SelfDefined", "", "", ref, <<>>)
\* the goroutine stack is exhausted: the runtime ends the process
StackOverflow == Node("StackOverflow", "", "", "", <<>>)

basicKindToCtyType(kind) ==
    CASE kind = "bool" -> "cty.Bool"
      [] kind = "string" -> "cty.String"
      [] kind \in {"int", "int8", "int16", "int32", "int64",
                   "uint", "uint8", "uint16", "uint32", "uint64",
                   "float32", "float64", "complex64", "complex128"} -> "cty.Number"
      [] kind = "invalid" -> "cty.String"
      [] OTHER -> "cty.String"

CtyList(cty) == "cty.List(" \o cty \o ")"

RECURSIVE outputHCL2SpecField(_, _, _, _)
\* depth: the calls the stack still has room for
outputHCL2SpecField(accessor, fieldType, tag, depth) ==
    IF depth = 0 THEN StackOverflow
    ELSE IF HasKey(tag, "") /\ HasOption(Get(tag, ""), "self-defined")
    THEN SelfDefined(TypeString(fieldType))
    ELSE
    CASE Kind(fieldType) = "Pointer" ->
           outputHCL2SpecField(accessor, Elem(fieldType), tag, depth - 1)
      [] Kind(fieldType) = "Basic" ->
           AttrSpec(accessor, basicKindToCtyType(Head(fieldType).n))
      [] Kind(fieldType) = "Map" ->
           BlockAttrsSpec(accessor, "cty.String")
      [] Kind(fieldType) = "Slice" ->
           LET e0 == Elem(fieldType)
               elem == IF Kind(e0) = "Pointer" THEN Elem(e0) ELSE e0
           IN  CASE Kind(elem) = "Basic" ->
                      AttrSpec(accessor,
                               CtyList(basicKindToCtyType(Head(elem).n)))
                 [] Kind(elem) = "Named" ->
                      BlockListSpec(accessor,
                        outputHCL2SpecField(accessor, elem, tag, depth - 1))
                 [] Kind(elem) = "Slice" ->
                      BlockListSpec(accessor,
                        outputHCL2SpecField(accessor, Underlying(elem), tag,
                                            depth - 1))
                 [] OTHER ->
                      outputHCL2SpecField(accessor, Underlying(elem), tag,
                                          depth - 1)
      [] Kind(fieldType) = "Named" ->
           IF Kind(Underlying(fieldType)) = "Struct"
           THEN BlockSpec(accessor, TypeString(fieldType))
           ELSE outputHCL2SpecField(TypeString(fieldType),
                                    Underlying(fieldType), tag, depth - 1)
      [] Kind(fieldType) = "Struct" ->
           BlockObjectSpec(accessor, TypeString(fieldType))
      [] OTHER -> AttrSpec(accessor, basicKindToCtyType("bool"))

\* outputStructHCL2SpecBody: one "key": node entry per field of the flat
\* struct
outputStructHCL2SpecBody(s) ==
    [i \in 1..Len(s) |->
        [key |-> CtyName(s[i]),
         node |-> outputHCL2SpecField(CtyName(s[i]), s[i].type,
                                      Parse(s[i].tag), MaxLowerDepth)]]

RECURSIVE Overflows(_)
Overflows(node) ==
    \/ node.kind = "StackOverflow"
    \/ \E i \in 1..Len(node.nested) : Overflows(node.nested[i])

\* outputStructFields: the declaration line of each field
outputStructFields(s) ==
    [i \in 1..Len(s) |->
        [name |-> s[i].name, type |-> TypeString(s[i].type), tag |-> s[i].tag]]

(***************************************************************************)
(* main.                                                                   *)
(***************************************************************************)
AsciiStr == "0123456789ABCDEFGHIJKLMNOPQRSTUVWXYZ_abcdefghijklmnopqrstuvwxyz"
OrdOf == [c \in Chars(AsciiStr) |-> CHOOSE i \in 1..Len(AsciiStr) : Char(AsciiStr, i) = c]
Ord(c) == OrdOf[c]

\* a < b on Go strings
RECURSIVE StrLess(_, _)
StrLess(a, b) ==
    IF b = "" THEN FALSE
    ELSE IF a = "" THEN TRUE
    ELSE IF Char(a, 1) = Char(b, 1)
         THEN StrLess(SubSeq(a, 2, Len(a)), SubSeq(b, 2, Len(b)))
         ELSE Ord(Char(a, 1)) < Ord(Char(b, 1))

\* sort.Strings
RECURSIVE SortStrings(_)
SortStrings(names) ==
    IF names = <<>> THEN <<>>
    ELSE LET rest == SortStrings(Tail(names))
             x == Head(names)
             k == Cardinality({i \in 1..Len(rest) : StrLess(rest[i], x)})
         IN  SubSeq(rest, 1, k) \o <<x>> \o SubSeq(rest, k + 1, Len(rest))

\* sort.SearchStrings: the first position whose name is >= x
SearchStrings(names, x) ==
    1 + Cardinality({i \in 1..Len(names) : StrLess(names[i], x)})

\* sort.Slice(structs, by OriginalStructName)
RECURSIVE SortStructs(_)
SortStructs(ss) ==
    IF ss = <<>> THEN <<>>
    ELSE LET rest == SortStructs(Tail(ss))
             x == Head(ss)
             k == Cardinality({i \in 1..Len(rest) :
                     StrLess(rest[i].OriginalStructName, x.OriginalStructName)})
         IN  SubSeq(rest, 1, k) \o <<x>> \o SubSeq(rest, k + 1, Len(rest))

Def(id, name, type) == [id |-> id, name |-> name, type |-> type]

FieldDefs(owner, fields) ==
    {Def(owner \o "." \o fields[i].name, fields[i].name, fields[i].type) :
        i \in 1..Len(fields)}

\* topPkg.TypesInfo.Defs: the type declarations of the package and the
\* fields of its structs (an embedded field defines a field too)
Defs(root) ==
    {Def("type " \o n, n, Named(TopPkgPath, n)) :
        n \in StructNames \cup {"Mode", "RuleSet", "Iface", "L"}}
      \cup FieldDefs("Config", root)
      \cup FieldDefs("Rule", RuleFields)
      \cup FieldDefs("Base", BaseFields)
      \cup FieldDefs("Common", CommonFields)

\* lines 101-120: the iteration does not `continue`
Cared(d, names) ==
    /\ Kind(d.type) = "Named"
    /\ Head(d.type).p = TopPkgPath
    /\ Kind(Underlying(d.type)) = "Struct"
    /\ LET pos == SearchStrings(names, d.name)
       IN  pos <= Len(names) /\ names[pos] = d.name

\* the projection name without the root's own name
FlatNameDropsName(name) == "Flat"

\* the projection name main gives a root
FlatName(name) == "Flat" \o name

StructDef(name, flat) ==
    [OriginalStructName |-> name,
     FlatStructName |-> FlatName(name),
     Struct |-> flat]

\* the text fixes of lines 174-185 on one piece of the output: the
\* package path of the generated file is dropped from qualified names
Unqualify(text) == ReplaceAll(text, TopPkgPath \o ".", "")

RECURSIVE UnqualifyNode(_)
UnqualifyNode(node) ==
    [node EXCEPT !.name = Unqualify(node.name),
                 !.ref = Unqualify(node.ref),
                 !.nested = [i \in 1..Len(node.nested) |->
                               UnqualifyNode(node.nested[i])]]

\* what lines 152-172 print for one StructDef, after the text fixes
Emitted(sd) ==
    LET decl == outputStructFields(sd.Struct)
        body == outputStructHCL2SpecBody(sd.Struct)
    IN  [OriginalStructName |-> sd.OriginalStructName,
         FlatStructName |-> sd.FlatStructName,
         fields |-> [i \in 1..Len(decl) |->
                       [decl[i] EXCEPT !.type = Unqualify(@)]],
         spec |-> [i \in 1..Len(body) |->
                     [key |-> Unqualify(body[i].key),
                      node |-> UnqualifyNode(body[i].node)]]]

\* one iteration of the range over Defs that reaches line 121; an
\* iteration that continues before it changes nothing
RangeDef(d) ==
    /\ pc = "range"
    /\ d \in defs
    /\ Cared(d, typeNames)
    /\ ~SquashPanics(StructFields(Head(Underlying(d.type)).u))
    /\ LET pos == SearchStrings(typeNames, d.name)
           utStruct == StructFields(Head(Underlying(d.type)).u)
           flatenedStruct == addCtyTagToStruct(getMapstructureSquashedStruct(utStruct))
       IN  /\ typeNames' = SubSeq(typeNames, 1, pos - 1)
                             \o SubSeq(typeNames, pos + 1, Len(typeNames))
           /\ structs' = Append(structs, StructDef(d.name, flatenedStruct))
    /\ defs' = defs \ {d}
    /\ UNCHANGED <<rootDecl, requested, pc, outputFile>>

\* the same iteration when a tag of the struct does not parse: nil
\* dereference in getMapstructureSquashedStruct, the process dies
RangePanic(d) ==
    /\ pc = "range"
    /\ d \in defs
    /\ Cared(d, typeNames)
    /\ SquashPanics(StructFields(Head(Underlying(d.type)).u))
    /\ pc' = "panic"
    /\ UNCHANGED <<rootDecl, requested, typeNames, defs, structs, outputFile>>

RangeOver == pc = "range" /\ \A d \in defs : ~Cared(d, typeNames)

SpecOverflows(sd) ==
    LET body == outputStructHCL2SpecBody(sd.Struct)
    IN  \E i \in 1..Len(body) : Overflows(body[i].node)

\* lines 139-195: the range is over; the structs are sorted, printed and
\* the file is written.  The import block (getUsedImports, outputImports)
\* and goFmt only lay the text out and are not part of the state.
Emit ==
    /\ RangeOver
    /\ \A i \in 1..Len(structs) : ~SpecOverflows(structs[i])
    /\ LET sorted == SortStructs(structs)
       IN  outputFile' = [written |-> TRUE,
                          structs |-> [i \in 1..Len(sorted) |-> Emitted(sorted[i])]]
    /\ pc' = "done"
    /\ UNCHANGED <<rootDecl, requested, typeNames, defs, structs>>

\* the same, when outputHCL2SpecField recurses without end: the process
\* dies before os.Create
EmitOverflow ==
    /\ RangeOver
    /\ \E i \in 1..Len(structs) : SpecOverflows(structs[i])
    /\ pc' = "overflow"
    /\ UNCHANGED <<rootDecl, requested, typeNames, defs, structs, outputFile>>

Next ==
    \/ \E d \in defs : RangeDef(d)
    \/ \E d \in defs : RangePanic(d)
    \/ Emit
    \/ EmitOverflow

(***************************************************************************)
(* The inputs of a run.                                                    *)
(***************************************************************************)
CfgNamed(n) == Named(TopPkgPath, n)
SelfDefinedTag == <<TagEntry("mapstructure-to-hcl2", "", <<"self-defined">>)>>
KeylessSelfDefinedTag == <<TagEntry("", "", <<"self-defined">>)>>

\* fields that meet in name, accessor or squash
NameFields ==
    { Field("Name", Basic("string"), NoTag),
      Field("Name", Basic("int"), MsName("cmd")),
      Field("Cmd", Basic("string"), NoTag),
      Field("Tags", NewSlice(Basic("string")), NoTag),
      Field("HTTPPort", Basic("int"), NoTag),
      Field("Common", CfgNamed("Common"), Squash),
      Field("Common", NewPointer(CfgNamed("Common")), Squash),
      Field("Inline", StructLit("inline"), Squash) }

\* one field of each shape
ShapeFields ==
    { Field("Mode", CfgNamed("Mode"), NoTag),
      Field("PMode", NewPointer(CfgNamed("Mode")), NoTag),
      Field("Count", NewPointer(Basic("int")), NoTag),
      Field("Ratio", Basic("float64"), NoTag),
      Field("PP", NewPointer(NewPointer(Basic("string"))), NoTag),
      Field("Timeout", Named("time", "Duration"), NoTag),
      Field("Rule", CfgNamed("Rule"), NoTag),
      Field("PRule", NewPointer(CfgNamed("Rule")), NoTag),
      Field("Rules", NewSlice(CfgNamed("Rule")), NoTag),
      Field("PRules", NewSlice(NewPointer(CfgNamed("Rule"))), NoTag),
      Field("Grid", NewSlice(NewSlice(CfgNamed("Rule"))), NoTag),
      Field("Cube", NewSlice(NewSlice(NewSlice(CfgNamed("Rule")))), NoTag),
      Field("RuleSet", CfgNamed("RuleSet"), NoTag),
      Field("RuleSets", NewSlice(CfgNamed("RuleSet")), NoTag),
      Field("Env", MapOf("string", Basic("int")), NoTag),
      Field("Args", NewSlice(Basic("string")), MsName("extra_arguments")),
      Field("Modes", NewSlice(CfgNamed("Mode")), NoTag),
      Field("Any", Interface, NoTag),
      Field("Iface", CfgNamed("Iface"), NoTag),
      Field("Anys", NewSlice(Interface), NoTag),
      Field("Ch", ChanOf(Basic("int")), NoTag),
      Field("Arr", ArrayOf(Basic("int")), NoTag),
      Field("Opts", StructLit("inline"), NoTag),
      Field("Loop", CfgNamed("L"), NoTag),
      Field("Self", CfgNamed("Rule"), SelfDefinedTag),
      Field("SelfMode", Basic("string"), SelfDefinedTag),
      Field("Keyless", CfgNamed("Rule"), KeylessSelfDefinedTag),
      Field("Legacy", Basic("string"), <<TagEntry("cty", "name", <<>>)>>),
      Field("ABCDWord", Basic("string"), NoTag) }

NameSeqs == UNION {[1..n -> NameFields] : n \in 0..MaxFields}
OneShape == {<<>>} \cup {<<f>> : f \in ShapeFields}

\* the declarations of Config the runs are checked on
RootDecls == {a \o b : a \in NameSeqs, b \in OneShape}
SmallRootDecls == {<<>>} \cup {<<f>> : f \in NameFields \cup ShapeFields}

\* the -type lists the runs are checked on
RequestedLists ==
    { <<"Config">>, <<"Rule", "Config">>, <<"Config", "Missing">>,
      <<"Missing">>, <<"Mode">>, <<"Common", "Base", "Config">>,
      <<"Rule", "Rule">>, <<"Base", "Base">> }

\* the state when the range over Defs of line 97 starts
Start(root, names) ==
    /\ rootDecl = root
    /\ requested = names
    /\ typeNames = SortStrings(names)
    /\ defs = Defs(root)
    /\ structs = <<>>
    /\ pc = "range"
    /\ outputFile = [written |-> FALSE, structs |-> <<>>]

Init == \E root \in RootDecls : Start(root, <<"Config">>)

Spec == Init /\ [][Next]_vars

InitRoots == \E root \in SmallRootDecls, names \in RequestedLists : Start(root, names)

SpecRoots == InitRoots /\ [][Next]_vars

(***************************************************************************)
(* Properties.                                                             *)
(***************************************************************************)
\* the fields of the flat schemas built so far
FlatFields ==
    UNION {{<<k, i>> : i \in 1..Len(structs[k].Struct)} : k \in 1..Len(structs)}

\* the emitted fields, each with its entry of the HCL2Spec map
EmittedFields ==
    UNION {{<<k, i>> : i \in 1..Len(outputFile.structs[k].fields)} :
              k \in 1..Len(outputFile.structs)}
EmittedNode(e) == outputFile.structs[e[1]].spec[e[2]].node
EmittedKey(e) == outputFile.structs[e[1]].spec[e[2]].key
FlatTypeOf(e) ==
    LET sd == CHOOSE sd \in {structs[k] : k \in 1..Len(structs)} :
                 sd.OriginalStructName = outputFile.structs[e[1]].OriginalStructName
    IN  sd.Struct[e[2]].type

\* a node and the nodes nested in it
RECURSIVE NodesOf(_)
NodesOf(node) ==
    {node} \cup UNION {NodesOf(node.nested[i]) : i \in 1..Len(node.nested)}

EmittedNodes == UNION {NodesOf(EmittedNode(e)) : e \in EmittedFields}

\* the names of a declaration with every struct-shaped squash field
\* replaced, in place and to any depth, by its own fields; unexported and
\* function-typed fields are skipped
RECURSIVE TextualExpansion(_)
TextualExpansion(fields) ==
    IF fields = <<>> THEN <<>>
    ELSE LET f == Head(fields)
             here == IF ~Exported(f.name) \/ Kind(f.type) = "Signature"
                     THEN <<>>
                     ELSE IF IsSquash(f) /\ Kind(Underlying(f.type)) = "Struct"
                     THEN TextualExpansion(StructFields(Head(Underlying(f.type)).u))
                     ELSE <<f.name>>
         IN  here \o TextualExpansion(Tail(fields))

\* one scan keeping the first occurrence of each name
RECURSIVE FirstOccurrences(_)
FirstOccurrences(names) ==
    IF names = <<>> THEN <<>>
    ELSE LET init == FirstOccurrences(SubSeq(names, 1, Len(names) - 1))
             last == names[Len(names)]
         IN  IF \E i \in 1..Len(init) : init[i] = last
             THEN init
             ELSE Append(init, last)

NamesOf(fields) == [i \in 1..Len(fields) |-> fields[i].name]

RootFlattened == pc \in {"range", "done"} /\ structs # <<>>

\* C1: in every flat schema (getMapstructureSquashedStruct then
\* addCtyTagToStruct) no two fields have the same name and no two have the
\* same cty accessor.
C1_UniqueNamesAndAccessors ==
    \A k \in 1..Len(structs) :
        LET s == structs[k].Struct
        IN  \A i, j \in 1..Len(s) :
                i # j => s[i].name # s[j].name /\ CtyName(s[i]) # CtyName(s[j])

\* C1 witness: a flat schema of at least two fields was built from a root
\* whose expansion declares a name twice and whose squashed struct holds
\* two fields of the same accessor.
C1_Witness ==
    /\ RootFlattened
    /\ Len(structs[1].Struct) >= 2
    /\ LET sq == getMapstructureSquashedStruct(rootDecl)
       IN  /\ Len(sq) < Len(TextualExpansion(rootDecl))
           /\ Len(structs[1].Struct) < Len(sq)

\* C2: the names getMapstructureSquashedStruct returns are the first
\* occurrences, in order, of the names of the textual expansion of the
\* root.
C2_SquashOrder ==
    RootFlattened =>
        NamesOf(getMapstructureSquashedStruct(rootDecl))
            = FirstOccurrences(TextualExpansion(rootDecl))

\* the same with no squash-marked field that is not struct-shaped in the
\* declarations: the de-duplication on every append and merge equals one
\* scan over the expansion
RECURSIVE SquashOnlyStructs(_)
SquashOnlyStructs(fields) ==
    \A i \in 1..Len(fields) :
        IsSquash(fields[i]) /\ Exported(fields[i].name) =>
            /\ Kind(Underlying(fields[i].type)) = "Struct"
            /\ SquashOnlyStructs(StructFields(Head(Underlying(fields[i].type)).u))

SquashOrderOfStructSquashes ==
    RootFlattened /\ SquashOnlyStructs(rootDecl) =>
        NamesOf(getMapstructureSquashedStruct(rootDecl))
            = FirstOccurrences(TextualExpansion(rootDecl))

\* C3: when a requested root is not a named struct of the package, no
\* output file is written.
C3_MissingRootAborts ==
    (\E i \in 1..Len(requested) : requested[i] \notin StructNames)
        => ~outputFile.written

\* the scalar a shape resolves to through pointers and named types, if any
RECURSIVE ResolvesToScalar(_, _)
ResolvesToScalar(t, fuel) ==
    /\ fuel > 0
    /\ CASE Kind(t) = "Basic" -> TRUE
         [] Kind(t) = "Pointer" -> ResolvesToScalar(Elem(t), fuel - 1)
         [] Kind(t) = "Named" ->
              Kind(Underlying(t)) # "Struct"
                /\ ResolvesToScalar(Underlying(t), fuel - 1)
         [] OTHER -> FALSE

\* C4: every field of a flat schema whose shape resolves to a scalar is
\* exactly one Pointer around the scalar.
C4_ScalarLeavesOptional ==
    \A e \in FlatFields :
        LET t == structs[e[1]].Struct[e[2]].type
        IN  ResolvesToScalar(t, MaxLowerDepth) =>
                /\ Len(t) = 2
                /\ Kind(t) = "Pointer"
                /\ Kind(Elem(t)) = "Basic"

\* the record of a named type is the projection of a struct of the universe
IsProjection(rec) ==
    \E n \in StructNames : rec.u = rec.p \o "." \o n /\ rec.n = "Flat" \o n

\* C5: every reference to a named structure in a flat schema, and every
\* structure a Block of the emitted spec refers to, is the "Flat"
\* projection.
C5_ReferencesProjected ==
    /\ \A e \in FlatFields :
           LET t == structs[e[1]].Struct[e[2]].type
           IN  \A j \in 1..Len(t) :
                   IsNamedStruct(<<t[j]>>) => IsProjection(t[j])
    /\ \A node \in EmittedNodes :
           node.kind = "BlockSpec" =>
               node.ref \in {"Flat" \o n : n \in StructNames}

\* the tag carries the self-defined option on a tag other than the
\* mapstructure and cty ones
CarriesSelfDefined(tag) ==
    \E i \in 1..Len(tag) :
        /\ tag[i].key \notin {"mapstructure", "cty"}
        /\ HasOption(tag[i], "self-defined")

\* C6: a field whose tag carries the self-defined option is lowered to the
\* reference to its type's own HCL2Spec, whatever its shape.
C6_SelfDefinedWins ==
    \A e \in EmittedFields :
        CarriesSelfDefined(outputFile.structs[e[1]].fields[e[2]].tag)
            => EmittedNode(e).kind = "SelfDefined"

\* the number of sequence levels around a named struct, through named
\* sequence types; -1 for any other shape
RECURSIVE SeqLevels(_, _)
SeqLevels(t, fuel) ==
    IF fuel = 0 THEN -1
    ELSE CASE IsNamedStruct(t) -> 0
           [] Kind(t) = "Slice" ->
                LET r == SeqLevels(Elem(t), fuel - 1)
                IN  IF r < 0 THEN -1 ELSE r + 1
           [] Kind(t) = "Named" -> SeqLevels(Underlying(t), fuel - 1)
           [] OTHER -> -1

\* n BlockLists of the accessor around the Block of the structure
RECURSIVE IsBlockListNest(_, _, _)
IsBlockListNest(node, n, accessor) ==
    IF n = 0 THEN node.kind = "BlockSpec"
    ELSE /\ node.kind = "BlockListSpec"
         /\ node.name = accessor
         /\ Len(node.nested) = 1
         /\ IsBlockListNest(node.nested[1], n - 1, accessor)

\* C7: a field of n >= 1 sequence levels around a named structure lowers
\* to n nested BlockLists, each with the field's accessor, around the
\* lowering of the structure.
C7_NestedBlockLists ==
    \A e \in EmittedFields :
        LET n == SeqLevels(FlatTypeOf(e), MaxLowerDepth)
        IN  n >= 1 => IsBlockListNest(EmittedNode(e), n, EmittedKey(e))

\* an interface, channel or array, a named type over one, or a sequence of
\* one
RECURSIVE IsUnrecognized(_, _)
IsUnrecognized(t, fuel) ==
    /\ fuel > 0
    /\ CASE Kind(t) \in {"Interface", "Chan", "Array"} -> TRUE
         [] Kind(t) = "Named" ->
              Kind(Underlying(t)) # "Struct"
                /\ IsUnrecognized(Underlying(t), fuel - 1)
         [] Kind(t) = "Slice" ->
              Kind(Elem(t)) \in {"Interface", "Chan", "Array"}
         [] OTHER -> FALSE

\* C8: lowering ends for every field of a flat schema, and a shape none of
\* the rules matches gives the optional Bool attribute of the field's
\* accessor.
C8_LoweringTotal ==
    /\ pc # "overflow"
    /\ \A e \in EmittedFields :
           IsUnrecognized(FlatTypeOf(e), MaxLowerDepth)
               => EmittedNode(e) = AttrSpec(EmittedKey(e), "cty.Bool")

\* C9: every AttrSpec and BlockAttrsSpec of an emitted spec, at any depth,
\* has Required false.
C9_NothingRequired ==
    \A node \in EmittedNodes :
        node.kind \in {"AttrSpec", "BlockAttrsSpec"} => node.required = FALSE

\* C9 witness: a written spec holds an attribute, a block of attributes
\* and an attribute nested under a BlockList.
C9_Witness ==
    /\ outputFile.written
    /\ \E e \in EmittedFields : EmittedNode(e).kind = "AttrSpec"
    /\ \E e \in EmittedFields : EmittedNode(e).kind = "BlockAttrsSpec"
    /\ \E e \in EmittedFields :
           /\ EmittedNode(e).kind = "BlockListSpec"
           /\ \E node \in NodesOf(EmittedNode(e)) : node.kind = "AttrSpec"

\* the <<original name, projection name>> pairs of a run: the roots main
\* names and the structs flattenNamed renames
ProjectionNames ==
    {<<structs[k].OriginalStructName, structs[k].FlatStructName>> :
        k \in 1..Len(structs)}
      \cup
    UNION {
        LET t == structs[e[1]].Struct[e[2]].type
        IN  {<<n, t[j].n>> : <<n, j>> \in
                {<<n, j>> \in StructNames \X (1..Len(t)) :
                    /\ t[j].k = "Named"
                    /\ t[j].n # n
                    /\ t[j].u = t[j].p \o "." \o n}}
        : e \in FlatFields}

\* C10: the projection names of different roots of one run are different.
C10_ProjectionNamesDistinct ==
    \A a, b \in ProjectionNames : a[1] # b[1] => a[2] # b[2]

\* C10 witness: a run named the projections of two roots in main and one
\* more in flattenNamed.
C10_Witness ==
    /\ \E i, j \in 1..Len(structs) :
           structs[i].OriginalStructName # structs[j].OriginalStructName
    /\ \E a \in ProjectionNames :
           \A k \in 1..Len(structs) : structs[k].OriginalStructName # a[1]

\* the accessors given to the fields named ABCDWord that have no
\* mapstructure name: addCtyTagToStruct derives them with ToSnakeCase
AcronymWordAccessors ==
    {CtyName(structs[e[1]].Struct[e[2]]) : e \in
        {e \in FlatFields :
            LET f == structs[e[1]].Struct[e[2]]
            IN  /\ f.name = "ABCDWord"
                /\ ~HasKey(Parse(f.tag), "mapstructure")}}

\* C11 as amended: ToSnakeCase gives the field named ABCDWord the accessor
\* "abcd_word": the first pass separates only the last capital of the
\* acronym, with the word it starts, and the second pass finds no lowercase
\* letter or digit before a capital.
C11_AcronymWordAccessor ==
    \A a \in AcronymWordAccessors : a = "abcd_word"

\* C11 witness: a flat schema holds the field ABCDWord with its derived
\* accessor.
C11_Witness ==
    /\ RootFlattened
    /\ AcronymWordAccessors # {}
    /\ \E i \in 1..Len(rootDecl) : rootDecl[i].name = "ABCDWord"

\* C11 as stated: ToSnakeCase gives the field named ABCDWord the accessor
\* "a_b_c_d_word".
C11_AcronymLettersSeparated ==
    \A a \in AcronymWordAccessors : a = "a_b_c_d_word"

\* the fields of the root that getMapstructureSquashedStruct visits and
\* does not expand: exported, not a function, and not a squash-marked field
\* of struct shape
NotExpanded(fields) ==
    {i \in 1..Len(fields) :
        /\ Exported(fields[i].name)
        /\ Kind(fields[i].type) # "Signature"
        /\ ~(IsSquash(fields[i]) /\ Kind(Underlying(fields[i].type)) = "Struct")}

\* C12: every exported, non-function field of the root that is not a
\* squash-marked field of struct shape, a squash-marked pointer to a named
\* struct included, is in the flat schema under its own name.
C12_NoFieldLost ==
    RootFlattened =>
        LET res == getMapstructureSquashedStruct(rootDecl)
        IN  \A i \in NotExpanded(rootDecl) :
                \E j \in 1..Len(res) : res[j].name = rootDecl[i].name

\* the fields of NotExpanded that carry no squash marker are all kept
UnmarkedFieldsKept ==
    RootFlattened =>
        LET res == getMapstructureSquashedStruct(rootDecl)
        IN  \A i \in NotExpanded(rootDecl) :
                ~IsSquash(rootDecl[i]) =>
                    \E j \in 1..Len(res) : res[j].name = rootDecl[i].name

\* C13: the emitted spec of every flat schema has one entry per field, in
\* order, keyed by the field's cty accessor, and the name inside the
\* entry's node is that key.
C13_EntryNameIsKey ==
    /\ \A k \in 1..Len(outputFile.structs) :
           LET out == outputFile.structs[k]
           IN  /\ Len(out.spec) = Len(out.fields)
               /\ \A i \in 1..Len(out.spec) :
                      out.spec[i].key = CtyName(out.fields[i])
    /\ \A e \in EmittedFields : EmittedNode(e).name = EmittedKey(e)

\* the same for the fields whose flat type is not a named type that
\* resolves to something other than a struct
EntryNameIsKeyOffNamedNonStruct ==
    \A e \in EmittedFields :
        LET t == FlatTypeOf(e)
            inner == IF Kind(t) = "Pointer" THEN Elem(t) ELSE t
        IN  ~(Kind(inner) = "Named" /\ Kind(Underlying(inner)) # "Struct")
                => EmittedNode(e).name = EmittedKey(e)

====
